---- MODULE Spec2Model ----
(***************************************************************************)
(* The note editing session of the note-taking client: the NotePage        *)
(* component (load, edit, save, delete of one note) and the FileUpload     *)
(* component it embeds (validation, concurrent upload jobs, removal of a   *)
(* stored attachment), together with the two remote services they call:    *)
(* the `notes` table and the `notes-attachments` storage bucket.           *)
(*                                                                         *)
(* Every handler is cut at its awaits: the part up to an await is one      *)
(* step (the request is issued), the part after it is another step (the    *)
(* service answers and the handler resumes).  A request that the service   *)
(* answers with an error has had no effect on the service.                 *)
(***************************************************************************)
EXTENDS Naturals, Sequences, FiniteSets

(***************************************************************************)
(* Bounds of the model.                                                    *)
(***************************************************************************)
\* files in one drop
MaxBatch == 2
\* storage names Math.random() can still hand out
MaxNames == 2
\* handleDelete invocations that may be in flight together
MaxDeleteCalls == 1
\* FileUpload.handleRemoveFile invocations that may be in flight together
MaxRemoveCalls == 1
\* upload batches that may be in flight together
MaxBatches == 2

(***************************************************************************)
(* Values.                                                                 *)
(***************************************************************************)
\* useState<Note | null>(null), useState<string | null>(null)
Null == [null |-> TRUE]

\* no row under an id of the notes table
Absent == [absent |-> TRUE]

\* the authenticated user (session.user.id)
User == "u1"

\* the route parameter of a note that was never saved
NewId == "new"

\* the row ids gen_random_uuid() hands out, in the order it hands them out
IdOrder == <<"n1", "n2", "n3">>

NoteIds == {IdOrder[i] : i \in 1..Len(IdOrder)}

WhiteSpace == {" ", "\t", "\n"}

\* the bucket's public URL prefix, as path segments
BucketUrl == <<"storage", "notes-attachments">>

\* supabase.storage.from('notes-attachments').getPublicUrl(filePath)
getPublicUrl(filePath) == BucketUrl \o <<filePath>>

\* url.split('/').pop()
FileNameOf(url) == url[Len(url)]

\* note.attachments.map(url => url.split('/').pop())
RECURSIVE FileNamesOf(_)
FileNamesOf(urls) ==
    IF urls = <<>> THEN <<>>
    ELSE <<FileNameOf(Head(urls))>> \o FileNamesOf(Tail(urls))

Range(s) == {s[i] : i \in 1..Len(s)}

\* String.prototype.trim on a sequence of characters
RECURSIVE TrimStart(_)
TrimStart(s) ==
    IF s # <<>> /\ Head(s) \in WhiteSpace THEN TrimStart(Tail(s)) ELSE s

RECURSIVE TrimEnd(_)
TrimEnd(s) ==
    IF s # <<>> /\ s[Len(s)] \in WhiteSpace
    THEN TrimEnd(SubSeq(s, 1, Len(s) - 1))
    ELSE s

trim(s) == TrimEnd(TrimStart(s))

(***************************************************************************)
(* Messages shown to the user.                                             *)
(***************************************************************************)
LoadFailedMsg == [msg |-> "Failed to load note. Please try again."]
SaveFailedMsg == [msg |-> "Failed to save note. Please try again."]
DeleteFailedMsg == [msg |-> "Failed to delete note. Please try again."]
RemoveFailedMsg == [msg |-> "Failed to remove file. Please try again."]
UploadFailedMsg(file) == [msg |-> "Failed to upload", file |-> file.name]
TooBigMsg(file) == [msg |-> "exceeds 25MB limit", file |-> file.name]

(***************************************************************************)
(* Files the user can drop, and their validation.                          *)
(***************************************************************************)
MAX_FILE_SIZE == 25 * 1024 * 1024

\* ALLOWED_FILE_TYPES: the MIME types (a "*" subtype is a wildcard) ...
AllowedMimes ==
    { <<"application", "pdf">>,
      <<"application", "vnd.ms-powerpoint">>,
      <<"application", "vnd.openxmlformats-officedocument.presentationml.presentation">>,
      <<"video", "*">>,
      <<"application", "msword">>,
      <<"application", "vnd.openxmlformats-officedocument.wordprocessingml.document">> }

\* ... and the extensions listed under them
AllowedExts == {"pdf", "ppt", "pptx", "mp4", "webm", "doc", "docx"}

\* the files a drop is drawn from: a small PDF, a deck of exactly the size
\* ceiling, a video one byte above it, and a small image
FilePool ==
    { [name |-> "exam.pdf", ext |-> "pdf", type |-> <<"application", "pdf">>,
       size |-> 2 * 1024 * 1024],
      [name |-> "deck.ppt", ext |-> "ppt", type |-> <<"application", "vnd.ms-powerpoint">>,
       size |-> MAX_FILE_SIZE],
      [name |-> "talk.mp4", ext |-> "mp4", type |-> <<"video", "mp4">>,
       size |-> MAX_FILE_SIZE + 1],
      [name |-> "pic.png", ext |-> "png", type |-> <<"image", "png">>,
       size |-> 1024] }

\* the drops: every sequence of 1..MaxBatch files of the pool
Drops == UNION {[1..n -> FilePool] : n \in 1..MaxBatch}

\* (mutant) useDropzone without its accept option: every type passes
MatchesAccept_any(file) == TRUE

\* useDropzone({accept: ALLOWED_FILE_TYPES}): a file passes when its MIME type
\* is listed (or matches a wildcard entry) or its name ends in a listed extension
MatchesAccept(file) ==
    \/ file.type \in AllowedMimes
    \/ <<file.type[1], "*">> \in AllowedMimes
    \/ file.ext \in AllowedExts

\* useDropzone({maxSize: MAX_FILE_SIZE})
MatchesMaxSize(file) == file.size <= MAX_FILE_SIZE

\* the acceptedFiles useDropzone hands to onDrop
DropzoneAccepts(file) == MatchesAccept(file) /\ MatchesMaxSize(file)

\* the filter of onDrop: file.size > MAX_FILE_SIZE is refused
PassesSizeFilter(file) == ~(file.size > MAX_FILE_SIZE)

\* validFiles of onDrop for a drop
validFilesOf(drop) ==
    SelectSeq(SelectSeq(drop, DropzoneAccepts), PassesSizeFilter)

\* the files of the accepted ones that onDrop's filter refuses, in order
TooBigOf(drop) ==
    SelectSeq(SelectSeq(drop, DropzoneAccepts), LAMBDA f : ~PassesSizeFilter(f))

\* const fileName = `${Math.random()}.${fileExt}`: rnd stands for the random
\* number, which is never drawn twice
StorageName(rnd, file) == <<rnd, file.ext>>

(***************************************************************************)
(* The remote services.                                                    *)
(***************************************************************************)
\* the objects the bucket holds before the session starts
InitialNames == <<<<1, "pdf">>, <<2, "mp4">>>>

\* the row the notes table holds before the session starts
InitialRow ==
    [title |-> <<"o", "l", "d">>, content |-> <<"#">>, category |-> <<"c">>,
     tags |-> <<"t2", "t1">>,
     attachments |-> <<getPublicUrl(InitialNames[1]), getPublicUrl(InitialNames[2])>>,
     user_id |-> User]

\* the id the table gives the next inserted row
FreshId(ns) ==
    IdOrder[CHOOSE i \in 1..Len(IdOrder) :
        /\ ns[IdOrder[i]] = Absent
        /\ \A j \in 1..(i - 1) : ns[IdOrder[j]] # Absent]

\* supabase.from('notes').insert([noteData])
StoreInsert(ns, data) == [ns EXCEPT ![FreshId(ns)] = data]

\* supabase.from('notes').update(noteData).eq('id', id)
StoreUpdate(ns, rowId, data) ==
    [ns EXCEPT ![rowId] =
        [title |-> data.title, content |-> data.content, category |-> data.category,
         tags |-> data.tags, attachments |-> data.attachments, user_id |-> data.user_id]]

\* supabase.from('notes').delete().eq('id', id)
StoreDelete(ns, rowId) == [ns EXCEPT ![rowId] = Absent]

\* supabase.from('notes').select('*').eq('id', id).single(): the row with its id
StoreSelect(ns, rowId) ==
    IF rowId \in NoteIds /\ ns[rowId] # Absent
    THEN [id |-> rowId, title |-> ns[rowId].title, content |-> ns[rowId].content,
          category |-> ns[rowId].category, tags |-> ns[rowId].tags,
          attachments |-> ns[rowId].attachments, user_id |-> ns[rowId].user_id]
    ELSE Null

\* supabase.storage.from('notes-attachments').remove(fileNames)
StorageRemove(objs, fileNames) == objs \ Range(fileNames)

\* supabase.storage.from('notes-attachments').upload(filePath, file, {upsert: false})
StorageUpload(objs, filePath) == objs \cup {filePath}

(***************************************************************************)
(* State.                                                                  *)
(***************************************************************************)
VARIABLES
    notes,          \* the notes table: row id -> row, or Absent
    storage,        \* the names of the objects in the notes-attachments bucket
    nextName,       \* the next number Math.random() returns
    id,             \* useParams().id: NewId or a row id
    session,        \* useAuth().session: the session of the user, or Null
    page,           \* "note" while NotePage is mounted, "home" after navigate('/'),
                    \* "login" once there is no session
    note,           \* NotePage: the draft, or Null
    loading,        \* NotePage: loading
    saving,         \* NotePage: saving
    error,          \* NotePage: error
    showUpload,     \* NotePage: showUpload (FileUpload is rendered)
    saveReq,        \* the insert or update request of handleSave in flight, or Null
    deletes,        \* the handleDelete invocations: idle, awaiting the bucket
                    \* ("storage"), awaiting the table ("record"), or "deleted"
    declined,       \* the user's last answer to window.confirm was No
    removals,       \* the FileUpload.handleRemoveFile invocations in flight
    uploading,      \* FileUpload: uploading
    uploadProgress, \* FileUpload: uploadProgress, file name -> percentage
    fuError,        \* FileUpload: error
    batches         \* the onDrop invocations in flight, with their upload jobs

vars ==
    <<notes, storage, nextName, id, session, page, note, loading, saving, error,
      showUpload, saveReq, deletes, declined, removals, uploading, uploadProgress, fuError,
      batches>>

remote == <<notes, storage>>
notePageState == <<note, loading, saving, error, showUpload>>
fileUploadState == <<uploading, uploadProgress, fuError>>

DeleteSlots == 1..MaxDeleteCalls
RemoveSlots == 1..MaxRemoveCalls
BatchSlots == 1..MaxBatches

Idle == [pc |-> "idle"]

\* NotePage is mounted
Mounted == page = "note"

\* NotePage renders the editor (not the spinner): its buttons and inputs exist
Interactive == Mounted /\ ~loading

\* FileUpload is rendered
UploadShown == Interactive /\ showUpload

\* the draft of a note that was never saved (useEffect, id === 'new')
EmptyDraft ==
    [id |-> NewId, title |-> <<>>, content |-> <<>>, category |-> <<>>,
     tags |-> <<>>, attachments |-> <<>>]

\* what the user types into the title, the category and the editor
TitleInputs == {<<" ", "M", " ", "R", "\n">>}
CategoryInputs == {<<"B", "\t">>}
ContentInputs == {<<" ", "x", " ">>}

Init ==
    /\ notes = [n \in NoteIds |-> IF n = IdOrder[1] THEN InitialRow ELSE Absent]
    /\ storage = Range(InitialNames)
    /\ nextName = Len(InitialNames) + 1
    /\ id \in {NewId, IdOrder[1]}
    /\ session = [user |-> [id |-> User]]
    /\ page = "note"
    /\ note = IF id = NewId THEN EmptyDraft ELSE Null
    /\ loading = (id # NewId)
    /\ saving = FALSE
    /\ error = Null
    /\ showUpload = FALSE
    /\ saveReq = Null
    /\ deletes = [k \in DeleteSlots |-> Idle]
    /\ declined = FALSE
    /\ removals = [k \in RemoveSlots |-> Idle]
    /\ uploading = FALSE
    /\ uploadProgress = <<>>
    /\ fuError = Null
    /\ batches = [b \in BatchSlots |-> Idle]

\* a state setter of NotePage: without effect once the component is unmounted
SetIfMounted(old, new) == IF Mounted THEN new ELSE old

\* an invocation in flight whose component is unmounted: what it sets later is lost
Orphaned(slots) ==
    [k \in DOMAIN slots |->
        IF slots[k].pc = "idle" THEN slots[k] ELSE [slots[k] EXCEPT !.live = FALSE]]

\* NotePage and the FileUpload in it are unmounted and their state is gone;
\* the requests in flight stay in flight
unmount ==
    /\ note' = Null
    /\ loading' = FALSE
    /\ saving' = FALSE
    /\ error' = Null
    /\ showUpload' = FALSE
    /\ uploading' = FALSE
    /\ uploadProgress' = <<>>
    /\ fuError' = Null
    /\ batches' = Orphaned(batches)
    /\ removals' = Orphaned(removals)
    /\ declined' = FALSE

\* navigate('/'): the dashboard, which ProtectedRoute replaces by the login
\* page when there is no session
navigate ==
    /\ page' = IF session = Null THEN "login" ELSE "home"
    /\ unmount

(***************************************************************************)
(* NotePage: load.                                                         *)
(***************************************************************************)
\* (mutant) fetchNote with setLoading(false) at the end of the try block
\* instead of finally: a failed load leaves the spinner
fetchNoteSettle_noFinally(outcome) ==
    /\ Mounted /\ loading
    /\ outcome = "ok" => StoreSelect(notes, id) # Null
    /\ IF outcome = "ok"
       THEN note' = StoreSelect(notes, id) /\ error' = error /\ loading' = FALSE
       ELSE note' = note /\ error' = LoadFailedMsg /\ loading' = loading
    /\ UNCHANGED <<remote, nextName, id, session, page, saving, showUpload, saveReq, deletes,
                   declined, removals, fileUploadState, batches>>

\* fetchNote after its await: the select answers
fetchNoteSettle(outcome) ==
    /\ Mounted /\ loading
    /\ outcome = "ok" => StoreSelect(notes, id) # Null
    /\ IF outcome = "ok"
       THEN note' = StoreSelect(notes, id) /\ error' = error
       ELSE note' = note /\ error' = LoadFailedMsg
    /\ loading' = FALSE
    /\ UNCHANGED <<remote, nextName, id, session, page, saving, showUpload, saveReq,
                   deletes, declined,
                   removals, fileUploadState, batches>>

(***************************************************************************)
(* NotePage: the inputs.                                                   *)
(***************************************************************************)
\* onChange of the title input
setTitle(value) ==
    /\ Interactive
    /\ note' = IF note # Null THEN [note EXCEPT !.title = value] ELSE Null
    /\ UNCHANGED <<remote, nextName, id, session, page, loading, saving, error, showUpload,
                   saveReq, deletes, declined, removals, fileUploadState, batches>>

\* onChange of the category input
setCategory(value) ==
    /\ Interactive
    /\ note' = IF note # Null THEN [note EXCEPT !.category = value] ELSE Null
    /\ UNCHANGED <<remote, nextName, id, session, page, loading, saving, error, showUpload,
                   saveReq, deletes, declined, removals, fileUploadState, batches>>

\* onChange of the markdown editor
setContent(value) ==
    /\ Interactive
    /\ note' = IF note # Null THEN [note EXCEPT !.content = value] ELSE Null
    /\ UNCHANGED <<remote, nextName, id, session, page, loading, saving, error, showUpload,
                   saveReq, deletes, declined, removals, fileUploadState, batches>>

(***************************************************************************)
(* NotePage: save.                                                         *)
(***************************************************************************)
\* (mutant) noteData with the title as typed, not trimmed
noteDataOf_untrimmed(draft) ==
    [title |-> draft.title, content |-> draft.content,
     category |-> trim(draft.category), tags |-> draft.tags,
     attachments |-> draft.attachments, user_id |-> User]

\* noteData of handleSave
noteDataOf(draft) ==
    [title |-> trim(draft.title), content |-> draft.content,
     category |-> trim(draft.category), tags |-> draft.tags,
     attachments |-> draft.attachments, user_id |-> User]

\* (mutant) handleSave behind a Save button that is never disabled
handleSave_neverDisabled ==
    /\ Interactive
    /\ IF note = Null \/ session = Null
       THEN UNCHANGED <<saving, error, saveReq>>
       ELSE /\ saving' = TRUE
            /\ error' = Null
            /\ saveReq' = [op |-> IF id = NewId THEN "insert" ELSE "update",
                           rowId |-> id, data |-> noteDataOf(note)]
    /\ UNCHANGED <<remote, nextName, id, session, page, note, loading, showUpload, deletes,
                   declined, removals, fileUploadState, batches>>

\* (mutant) handleSave without its first line: with no draft or no session
\* noteData throws in the try block, and the catch shows the save error
handleSave_noEarlyReturn ==
    /\ Interactive /\ ~saving
    /\ IF note = Null \/ session = Null
       THEN /\ error' = SaveFailedMsg
            /\ UNCHANGED <<saving, saveReq>>
       ELSE /\ saving' = TRUE
            /\ error' = Null
            /\ saveReq' = [op |-> IF id = NewId THEN "insert" ELSE "update",
                           rowId |-> id, data |-> noteDataOf(note)]
    /\ UNCHANGED <<remote, nextName, id, session, page, note, loading, showUpload,
                   deletes, declined, removals, fileUploadState, batches>>

\* handleSave up to its await: the insert or the update is issued.  The Save
\* button is disabled while saving.
handleSave ==
    /\ Interactive /\ ~saving
    /\ IF note = Null \/ session = Null
       THEN UNCHANGED <<saving, error, saveReq>>
       ELSE /\ saving' = TRUE
            /\ error' = Null
            /\ saveReq' = [op |-> IF id = NewId THEN "insert" ELSE "update",
                           rowId |-> id, data |-> noteDataOf(note)]
    /\ UNCHANGED <<remote, nextName, id, session, page, note, loading, showUpload,
                   deletes, declined,
                   removals, fileUploadState, batches>>

\* the table can apply the request: an insert needs an unused id, an update
\* a row under the id (the update of a missing row is answered NotFound)
CanApply(req) ==
    IF req.op = "insert"
    THEN \E n \in NoteIds : notes[n] = Absent
    ELSE StoreSelect(notes, req.rowId) # Null

\* (mutant) handleSave with navigate('/') after the try block: it leaves the
\* page after a failed save too
handleSaveSettle_navigatesAlways(outcome) ==
    /\ saveReq # Null
    /\ outcome = "ok" => CanApply(saveReq)
    /\ notes' = IF outcome # "ok" THEN notes
                ELSE IF saveReq.op = "insert"
                     THEN StoreInsert(notes, saveReq.data)
                     ELSE StoreUpdate(notes, saveReq.rowId, saveReq.data)
    /\ navigate
    /\ saveReq' = Null
    /\ UNCHANGED <<storage, nextName, id, session, deletes>>

\* (mutant) a save whose success also clears the bucket of the objects the
\* saved note does not list
handleSaveSettle_prunes(outcome) ==
    /\ saveReq # Null
    /\ outcome = "ok" => CanApply(saveReq)
    /\ IF outcome = "ok"
       THEN /\ notes' = IF saveReq.op = "insert"
                        THEN StoreInsert(notes, saveReq.data)
                        ELSE StoreUpdate(notes, saveReq.rowId, saveReq.data)
            /\ storage' = storage \cap Range(FileNamesOf(saveReq.data.attachments))
            /\ navigate
       ELSE /\ notes' = notes
            /\ storage' = storage
            /\ error' = SetIfMounted(error, SaveFailedMsg)
            /\ saving' = SetIfMounted(saving, FALSE)
            /\ UNCHANGED <<page, note, loading, showUpload, removals, fileUploadState,
                           batches, declined>>
    /\ saveReq' = Null
    /\ UNCHANGED <<nextName, id, session, deletes>>

\* (mutant) handleSave without navigate('/'): after a successful save the
\* page stays, with the draft of the note that is still new
handleSaveSettle_staysOnPage(outcome) ==
    /\ saveReq # Null
    /\ outcome = "ok" => CanApply(saveReq)
    /\ notes' = IF outcome # "ok" THEN notes
                ELSE IF saveReq.op = "insert"
                     THEN StoreInsert(notes, saveReq.data)
                     ELSE StoreUpdate(notes, saveReq.rowId, saveReq.data)
    /\ error' = IF outcome = "ok" THEN error ELSE SetIfMounted(error, SaveFailedMsg)
    /\ saving' = SetIfMounted(saving, FALSE)
    /\ saveReq' = Null
    /\ UNCHANGED <<storage, nextName, id, session, deletes, page, note, loading, showUpload,
                   removals, fileUploadState, batches, declined>>

\* handleSave after its await: the table answers
handleSaveSettle(outcome) ==
    /\ saveReq # Null
    /\ outcome = "ok" => CanApply(saveReq)
    /\ IF outcome = "ok"
       THEN /\ notes' = IF saveReq.op = "insert"
                        THEN StoreInsert(notes, saveReq.data)
                        ELSE StoreUpdate(notes, saveReq.rowId, saveReq.data)
            /\ navigate
       ELSE /\ notes' = notes
            /\ error' = SetIfMounted(error, SaveFailedMsg)
            /\ saving' = SetIfMounted(saving, FALSE)
            /\ UNCHANGED <<page, note, loading, showUpload, removals, fileUploadState,
                           batches, declined>>
    /\ saveReq' = Null
    /\ UNCHANGED <<storage, nextName, id, session, deletes>>

(***************************************************************************)
(* NotePage: delete.                                                       *)
(***************************************************************************)
\* (mutant) handleDelete that asks window.confirm and goes on whatever the
\* answer: the delete of the row is issued after a No
handleDeleteDeclined_proceeds ==
    /\ Interactive /\ id # NewId
    /\ deletes[1].pc = "idle"
    /\ declined' = TRUE
    /\ deletes' = [deletes EXCEPT ![1] = [pc |-> "record", fileNames |-> <<>>]]
    /\ UNCHANGED <<remote, nextName, id, session, page, notePageState, saveReq, removals,
                   fileUploadState, batches>>

\* handleDelete, the user declines window.confirm
handleDeleteDeclined ==
    /\ Interactive /\ id # NewId
    /\ declined' = TRUE
    /\ UNCHANGED <<remote, nextName, id, session, page, notePageState, saveReq, deletes,
                   removals, fileUploadState, batches>>

\* (mutant) handleDelete that deletes the row first and never removes the
\* attachments
handleDelete_rowFirst(k) ==
    /\ Interactive /\ id # NewId
    /\ deletes[k].pc = "idle"
    /\ \A j \in DeleteSlots : j < k => deletes[j].pc # "idle"
    /\ error' = Null
    /\ declined' = FALSE
    /\ deletes' = [deletes EXCEPT ![k] =
            [pc |-> "record",
             fileNames |-> IF note # Null THEN FileNamesOf(note.attachments) ELSE <<>>]]
    /\ UNCHANGED <<remote, nextName, id, session, page, note, loading, saving, showUpload,
                   saveReq, removals, fileUploadState, batches>>

\* handleDelete up to its first await, the user confirms: the removal of the
\* draft's attachments is issued, or with no attachment the delete of the row
handleDelete(k) ==
    /\ Interactive /\ id # NewId
    /\ deletes[k].pc = "idle"
    /\ \A j \in DeleteSlots : j < k => deletes[j].pc # "idle"
    /\ error' = Null
    /\ declined' = FALSE
    /\ deletes' = [deletes EXCEPT ![k] =
            IF note # Null /\ Len(note.attachments) > 0
            THEN [pc |-> "storage", fileNames |-> FileNamesOf(note.attachments)]
            ELSE [pc |-> "record", fileNames |-> <<>>]]
    /\ UNCHANGED <<remote, nextName, id, session, page, note, loading, saving, showUpload,
                   saveReq, removals, fileUploadState, batches>>

\* (mutant) handleDelete without `if (storageError) throw storageError`: it
\* goes on to delete the row whatever the bucket answered
handleDeleteStorageSettle_noCheck(k, outcome) ==
    /\ deletes[k].pc = "storage"
    /\ storage' = IF outcome = "ok"
                  THEN StorageRemove(storage, deletes[k].fileNames)
                  ELSE storage
    /\ deletes' = [deletes EXCEPT ![k].pc = "record"]
    /\ UNCHANGED <<notes, nextName, id, session, page, note, loading, saving, error, showUpload,
                   saveReq, removals, fileUploadState, batches, declined>>

\* handleDelete after its first await: the bucket answers the removal
handleDeleteStorageSettle(k, outcome) ==
    /\ deletes[k].pc = "storage"
    /\ IF outcome = "ok"
       THEN /\ storage' = StorageRemove(storage, deletes[k].fileNames)
            /\ deletes' = [deletes EXCEPT ![k].pc = "record"]
            /\ error' = error
       ELSE /\ storage' = storage
            /\ deletes' = [deletes EXCEPT ![k] = Idle]
            /\ error' = SetIfMounted(error, DeleteFailedMsg)
    /\ UNCHANGED <<notes, nextName, id, session, page, note, loading, saving, showUpload,
                   saveReq, removals, fileUploadState, batches, declined>>

\* handleDelete after its second await: the table answers the delete
handleDeleteRecordSettle(k, outcome) ==
    /\ deletes[k].pc = "record"
    /\ IF outcome = "ok"
       THEN /\ notes' = StoreDelete(notes, id)
            /\ navigate
            /\ deletes' = [deletes EXCEPT ![k].pc = "deleted"]
       ELSE /\ notes' = notes
            /\ error' = SetIfMounted(error, DeleteFailedMsg)
            /\ deletes' = [deletes EXCEPT ![k] = Idle]
            /\ UNCHANGED <<page, note, loading, saving, showUpload, removals,
                           fileUploadState, batches, declined>>
    /\ UNCHANGED <<storage, nextName, id, session, saveReq>>

(***************************************************************************)
(* NotePage: the callbacks it hands to FileUpload.                         *)
(***************************************************************************)
\* (mutant) handleUploadComplete that puts the new URLs first
handleUploadComplete_prepends(prev, urls) ==
    IF prev = Null THEN Null
    ELSE [prev EXCEPT !.attachments = urls \o prev.attachments]

\* handleUploadComplete: the updater given to setNote
handleUploadComplete(prev, urls) ==
    IF prev = Null THEN Null
    ELSE [prev EXCEPT !.attachments = prev.attachments \o urls]

\* NotePage.handleRemoveFile: the updater given to setNote
handleRemoveFile(prev, urlToRemove) ==
    IF prev = Null THEN Null
    ELSE [prev EXCEPT !.attachments =
            SelectSeq(prev.attachments, LAMBDA url : url # urlToRemove)]

\* the FileUpload of an invocation is still the one rendered
Live(slot) == slot.live /\ Mounted

\* onClick of the paperclip button: setShowUpload(!showUpload).  A FileUpload
\* rendered again starts from its initial state.
toggleShowUpload ==
    /\ Interactive
    /\ showUpload' = ~showUpload
    /\ uploading' = FALSE
    /\ uploadProgress' = <<>>
    /\ fuError' = Null
    /\ batches' = Orphaned(batches)
    /\ removals' = Orphaned(removals)
    /\ UNCHANGED <<remote, nextName, id, session, page, note, loading, saving, error, saveReq,
                   deletes, declined>>

(***************************************************************************)
(* FileUpload: upload.                                                     *)
(***************************************************************************)
\* the storage names the jobs of a drop draw, in the order of validFiles
NamesFor(files, first) ==
    [i \in 1..Len(files) |-> StorageName(first + i - 1, files[i])]

\* the last element of a non-empty sequence
Last(s) == s[Len(s)]

\* onDrop up to its await: validation, and one upload request per valid file.
\* The dropzone is disabled while uploading.
onDrop(b, drop) ==
    /\ UploadShown /\ ~uploading
    /\ batches[b].pc = "idle"
    /\ \A j \in BatchSlots : j < b => batches[j].pc # "idle"
    /\ nextName + Len(validFilesOf(drop)) <= Len(InitialNames) + MaxNames + 1
    /\ fuError' = IF TooBigOf(drop) # <<>> THEN TooBigMsg(Last(TooBigOf(drop))) ELSE Null
    /\ uploadProgress' = <<>>
    /\ IF validFilesOf(drop) = <<>>
       THEN /\ uploading' = FALSE
            /\ UNCHANGED <<batches, nextName>>
       ELSE /\ uploading' = TRUE
            /\ batches' = [batches EXCEPT ![b] =
                    [pc |-> "uploading", live |-> TRUE,
                     refused |-> Len(drop) - Len(validFilesOf(drop)),
                     files |-> validFilesOf(drop),
                     fileNames |-> NamesFor(validFilesOf(drop), nextName),
                     results |-> [i \in 1..Len(validFilesOf(drop)) |-> "pending"]]]
            /\ nextName' = nextName + Len(validFilesOf(drop))
    /\ UNCHANGED <<remote, id, session, page, notePageState, saveReq, deletes, declined, removals>>

\* one upload job after its await: the bucket answers the upload (it refuses
\* a name that is taken: upsert is false)
uploadJobSettle(b, i, outcome) ==
    /\ batches[b].pc = "uploading"
    /\ i \in 1..Len(batches[b].files)
    /\ batches[b].results[i] = "pending"
    /\ outcome = "ok" => batches[b].fileNames[i] \notin storage
    /\ IF outcome = "ok"
       THEN /\ storage' = StorageUpload(storage, batches[b].fileNames[i])
            /\ batches' = [batches EXCEPT ![b].results[i] = "ok"]
            /\ uploadProgress' =
                IF Live(batches[b])
                THEN [n \in (DOMAIN uploadProgress) \cup {batches[b].files[i].name} |-> 100]
                ELSE uploadProgress
            /\ fuError' = fuError
       ELSE /\ storage' = storage
            /\ batches' = [batches EXCEPT ![b].results[i] = "failed"]
            /\ uploadProgress' = uploadProgress
            /\ fuError' = IF Live(batches[b])
                          THEN UploadFailedMsg(batches[b].files[i])
                          ELSE fuError
    /\ UNCHANGED <<notes, nextName, id, session, page, notePageState, saveReq, deletes, declined,
                   removals, uploading>>

\* urls of onDrop: the public URL of a job that succeeded, Null of one that failed
urlsOf(batch) ==
    [i \in 1..Len(batch.files) |->
        IF batch.results[i] = "ok" THEN getPublicUrl(batch.fileNames[i]) ELSE Null]

\* validUrls of onDrop
validUrlsOf(batch) == SelectSeq(urlsOf(batch), LAMBDA url : url # Null)

\* Promise.all(uploadPromises) has resolved: no job of the batch is pending
Settled(batch) == \A i \in 1..Len(batch.files) : batch.results[i] # "pending"

\* (mutant) onDrop whose jobs rethrow: Promise.all rejects with the first
\* failed job, and the outer catch reports the batch as failed
onDropSettle_rejects(b) ==
    /\ batches[b].pc = "uploading"
    /\ \E i \in 1..Len(batches[b].files) : batches[b].results[i] = "failed"
    /\ fuError' = IF Live(batches[b])
                  THEN [msg |-> "Failed to upload files. Please try again."]
                  ELSE fuError
    /\ uploading' = IF Live(batches[b]) THEN FALSE ELSE uploading
    /\ batches' = [batches EXCEPT ![b] = Idle]
    /\ UNCHANGED <<remote, nextName, id, session, page, notePageState, saveReq, deletes, declined,
                   removals, uploadProgress>>

\* (mutant) onDrop whose onUploadComplete leaves FileUpload open: the
\* component and its state outlive the batch
onDropSettle_staysOpen(b) ==
    /\ batches[b].pc = "uploading"
    /\ Settled(batches[b])
    /\ note' = IF validUrlsOf(batches[b]) # <<>> /\ Mounted
               THEN handleUploadComplete(note, validUrlsOf(batches[b]))
               ELSE note
    /\ uploading' = IF Live(batches[b]) THEN FALSE ELSE uploading
    /\ batches' = [batches EXCEPT ![b] = Idle]
    /\ UNCHANGED <<remote, nextName, id, session, page, loading, saving, error, showUpload,
                   saveReq, deletes, declined, removals, uploadProgress, fuError>>

\* onDrop after its await: the successful URLs go to onUploadComplete, which
\* appends them to the draft and closes FileUpload; finally uploading is reset
onDropSettle(b) ==
    /\ batches[b].pc = "uploading"
    /\ Settled(batches[b])
    /\ note' = IF validUrlsOf(batches[b]) # <<>> /\ Mounted
               THEN handleUploadComplete(note, validUrlsOf(batches[b]))
               ELSE note
    /\ IF validUrlsOf(batches[b]) # <<>> /\ Mounted /\ showUpload
       THEN /\ showUpload' = FALSE
            /\ uploading' = FALSE
            /\ uploadProgress' = <<>>
            /\ fuError' = Null
            /\ batches' = [Orphaned(batches) EXCEPT ![b] = Idle]
            /\ removals' = Orphaned(removals)
       ELSE /\ showUpload' = showUpload
            /\ uploading' = IF Live(batches[b]) THEN FALSE ELSE uploading
            /\ UNCHANGED <<uploadProgress, fuError, removals>>
            /\ batches' = [batches EXCEPT ![b] = Idle]
    /\ UNCHANGED <<remote, nextName, id, session, page, loading, saving, error, saveReq,
                   deletes, declined>>

(***************************************************************************)
(* FileUpload: removal of an attachment.                                   *)
(***************************************************************************)
\* FileUpload.handleRemoveFile up to its await (the X button of a listed
\* file): the removal of the object is issued
removeFile(k, url) ==
    /\ UploadShown
    /\ note # Null
    /\ url \in Range(note.attachments)
    /\ removals[k].pc = "idle"
    /\ \A j \in RemoveSlots : j < k => removals[j].pc # "idle"
    /\ removals' = [removals EXCEPT ![k] = [pc |-> "removing", live |-> TRUE, url |-> url]]
    /\ UNCHANGED <<remote, nextName, id, session, page, notePageState, saveReq, deletes, declined,
                   fileUploadState, batches>>

\* (mutant) handleRemoveFile that takes a removal which found no object for
\* a failure: the URL stays in the draft and the error is shown
removeFileSettle_absentIsFatal(k, outcome) ==
    /\ removals[k].pc = "removing"
    /\ storage' = IF outcome = "ok"
                  THEN StorageRemove(storage, <<FileNameOf(removals[k].url)>>)
                  ELSE storage
    /\ note' = IF outcome # "throw" /\ Mounted
                    /\ FileNameOf(removals[k].url) \in storage
               THEN handleRemoveFile(note, removals[k].url)
               ELSE note
    /\ fuError' = IF (outcome = "throw" \/ FileNameOf(removals[k].url) \notin storage)
                        /\ Live(removals[k])
                  THEN RemoveFailedMsg
                  ELSE fuError
    /\ removals' = [removals EXCEPT ![k] = Idle]
    /\ UNCHANGED <<notes, nextName, id, session, page, loading, saving, error, showUpload,
                   saveReq, deletes, declined, uploading, uploadProgress, batches>>

\* FileUpload.handleRemoveFile after its await.  "ok": the bucket removed the
\* object; "error": the call resolved with an error, which the handler does
\* not read; "throw": the call rejected.
removeFileSettle(k, outcome) ==
    /\ removals[k].pc = "removing"
    /\ storage' = IF outcome = "ok"
                  THEN StorageRemove(storage, <<FileNameOf(removals[k].url)>>)
                  ELSE storage
    /\ note' = IF outcome # "throw" /\ Mounted
               THEN handleRemoveFile(note, removals[k].url)
               ELSE note
    /\ fuError' = IF outcome = "throw" /\ Live(removals[k])
                  THEN RemoveFailedMsg
                  ELSE fuError
    /\ removals' = [removals EXCEPT ![k] = Idle]
    /\ UNCHANGED <<notes, nextName, id, session, page, loading, saving, error, showUpload,
                   saveReq, deletes, declined, uploading, uploadProgress, batches>>

(***************************************************************************)
(* Navbar: sign out.                                                       *)
(***************************************************************************)
\* Navbar.handleSignOut: signOut() ends the session, ProtectedRoute renders
\* the login page in place of NotePage, and navigate('/login') follows
handleSignOut ==
    /\ session # Null
    /\ page = "note"
    /\ session' = Null
    /\ page' = "login"
    /\ unmount
    /\ UNCHANGED <<remote, nextName, id, saveReq, deletes>>

(***************************************************************************)
(* The session.                                                            *)
(***************************************************************************)
Outcomes == {"ok", "error"}
RemoveOutcomes == {"ok", "error", "throw"}

LoadStep == \E o \in Outcomes : fetchNoteSettle(o)

EditStep ==
    \/ \E v \in TitleInputs : setTitle(v)
    \/ \E v \in CategoryInputs : setCategory(v)
    \/ \E v \in ContentInputs : setContent(v)

SaveStep ==
    \/ handleSave
    \/ \E o \in Outcomes : handleSaveSettle(o)

\* the Delete button answered Yes, and what follows
ConfirmedDeleteStep ==
    \/ \E k \in DeleteSlots : handleDelete(k)
    \/ \E k \in DeleteSlots, o \in Outcomes : handleDeleteStorageSettle(k, o)
    \/ \E k \in DeleteSlots, o \in Outcomes : handleDeleteRecordSettle(k, o)

DeleteStep ==
    \/ handleDeleteDeclined
    \/ ConfirmedDeleteStep

\* files are dropped while no batch is in flight (the first slot is free)
UploadStep ==
    \/ toggleShowUpload
    \/ \E drop \in Drops : onDrop(1, drop)
    \/ \E b \in BatchSlots, i \in 1..MaxBatch, o \in Outcomes : uploadJobSettle(b, i, o)
    \/ \E b \in BatchSlots : onDropSettle(b)

AuthStep == handleSignOut

\* files are dropped while a batch is in flight
OverlapStep == \E b \in BatchSlots \ {1}, drop \in Drops : onDrop(b, drop)

RemoveStep ==
    \/ \E k \in RemoveSlots :
        \E url \in Range(IF note = Null THEN <<>> ELSE note.attachments) :
            removeFile(k, url)
    \/ \E k \in RemoveSlots, o \in RemoveOutcomes : removeFileSettle(k, o)

\* the whole session
Next ==
    \/ LoadStep \/ EditStep \/ SaveStep \/ DeleteStep
    \/ UploadStep \/ OverlapStep \/ RemoveStep \/ AuthStep

Spec == Init /\ [][Next]_vars

\* the life of the attachments: the session of a user who uploads, removes
\* and deletes (never answering No), waits for a batch to settle before the
\* next drop, and neither edits the text nor saves
NextFiles == LoadStep \/ ConfirmedDeleteStep \/ UploadStep \/ RemoveStep

SpecFiles == Init /\ [][NextFiles]_vars

\* the life of the note: the session of a user who edits, uploads, saves and
\* deletes (never answering No), waits for a batch to settle before the next
\* drop, and removes no single attachment
NextNote == LoadStep \/ EditStep \/ SaveStep \/ ConfirmedDeleteStep \/ UploadStep

SpecNote == Init /\ [][NextNote]_vars

\* the buttons of the page: the session of a user who edits, saves and
\* deletes, and leaves the attachments as they are
NextButtons == LoadStep \/ EditStep \/ SaveStep \/ DeleteStep

SpecButtons == Init /\ [][NextButtons]_vars

\* the buttons of the page and of the navigation bar: the session of a user
\* who edits, saves and deletes, and may sign out
NextAuth == LoadStep \/ EditStep \/ SaveStep \/ DeleteStep \/ AuthStep

SpecAuth == Init /\ [][NextAuth]_vars

\* the uploads: the session of a user who opens and closes FileUpload and
\* drops files, whether a batch is in flight or not
NextUploads == LoadStep \/ UploadStep \/ OverlapStep

SpecUploads == Init /\ [][NextUploads]_vars

\* ... where every upload is answered and every onDrop runs on after its await
FairSpecUploads ==
    /\ SpecUploads
    /\ WF_vars(\E b \in BatchSlots, i \in 1..MaxBatch, o \in Outcomes :
                    uploadJobSettle(b, i, o))
    /\ WF_vars(\E b \in BatchSlots : onDropSettle(b))

\* ... where the select of fetchNote is answered in the end
FairSpecButtons == SpecButtons /\ WF_vars(LoadStep)

(***************************************************************************)
(* Properties.                                                             *)
(***************************************************************************)
\* the rows of the table
Rows == {n \in NoteIds : notes[n] # Absent}

\* the object a URL points to is in the bucket
Resolves(url) == FileNameOf(url) \in storage

\* C1: every URL in the attachments of a persisted note refers to an object
\* that exists in the bucket.
C1_AttachmentsResolve ==
    \A n \in Rows : \A url \in Range(notes[n].attachments) : Resolves(url)

\* a step in which the removal k of an attachment settles
RemovalSettles(k) == removals[k].pc = "removing" /\ removals'[k].pc = "idle"

\* C2: when a removal settles and the object is gone from the bucket, its URL
\* is absent from the draft's attachments; when the object is still there (the
\* removal failed), the draft's attachments are what they were.
C2_RemoveAttachment ==
    [][\A k \in RemoveSlots :
        (RemovalSettles(k) /\ Mounted /\ note # Null) =>
            IF FileNameOf(removals[k].url) \in storage'
            THEN note'.attachments = note.attachments
            ELSE removals[k].url \notin Range(note'.attachments)]_vars

\* a step in which the invocation k of handleDelete issues the delete of the row
IssuesRecordDelete(k) == deletes[k].pc # "record" /\ deletes'[k].pc = "record"

\* a step in which the removal of the attachments of delete k is answered with an error
StorageRemovalFails(k) == deletes[k].pc = "storage" /\ deletes'[k].pc = "idle"

\* C3: the removal a delete asks for covers all the attachments of the draft;
\* the delete of the row is issued only once all of them are gone from the
\* bucket; when the removal fails the row is left as it is (load(id) still
\* returns it), no delete of the row is issued and the session stays open
\* showing the delete error.
C3_DeleteOrder ==
    [][\A k \in DeleteSlots :
        /\ (deletes[k].pc = "idle" /\ deletes'[k].pc # "idle" /\ note # Null) =>
                deletes'[k].fileNames = [i \in 1..Len(note.attachments) |->
                                            FileNameOf(note.attachments[i])]
        /\ IssuesRecordDelete(k) =>
                \A n \in Range(deletes'[k].fileNames) : n \notin storage'
        /\ StorageRemovalFails(k) =>
                /\ notes' = notes
                /\ StoreSelect(notes, id) # Null => StoreSelect(notes', id) # Null
                /\ page' = page
                /\ Mounted => error' = DeleteFailedMsg]_vars

\* C3, witness: a delete failed at the removal of the two attachments of the
\* loaded note: the error is shown, the session is open, the row is there.
C3_Witness ==
    /\ Mounted /\ error = DeleteFailedMsg
    /\ note # Null /\ note.attachments = InitialRow.attachments
    /\ Range(InitialNames) \subseteq storage
    /\ StoreSelect(notes, id) # Null
    /\ \A k \in DeleteSlots : deletes[k].pc = "idle"

\* a step in which the delete k ends in failure, at either of its two steps
DeleteFails(k) ==
    \/ handleDeleteStorageSettle(k, "error")
    \/ handleDeleteRecordSettle(k, "error")

\* C4: when a delete ends in failure, the row and the objects of the note's
\* attachments are what they were before the delete.
C4_DeleteAllOrNothing ==
    [][\A k \in DeleteSlots :
        DeleteFails(k) =>
            /\ notes' = notes
            /\ \A n \in Range(deletes[k].fileNames) : n \in storage']_vars

\* C5: after a successful delete the row is absent from the table and every
\* attachment the draft listed when the delete was asked for is absent from
\* the bucket.
C5_DeleteRemovesAll ==
    \A k \in DeleteSlots :
        deletes[k].pc = "deleted" =>
            /\ StoreSelect(notes, id) = Null
            /\ \A n \in Range(deletes[k].fileNames) : n \notin storage

\* C5, witness: of the two attachments of the note one was removed, then the
\* note was deleted with the one that was left.
C5_Witness ==
    \E k \in DeleteSlots :
        /\ deletes[k].pc = "deleted"
        /\ Len(deletes[k].fileNames) = 1
        /\ deletes[k].fileNames[1] \in Range(InitialNames)
        /\ Range(InitialNames) \cap storage = {}

\* t is s without its leading and trailing white space
IsTrimOf(t, s) ==
    /\ t # <<>> => (t[1] \notin WhiteSpace /\ t[Len(t)] \notin WhiteSpace)
    /\ \E a \in 0..Len(s) : \E b \in a..Len(s) :
        /\ t = SubSeq(s, a + 1, b)
        /\ \A i \in 1..a : s[i] \in WhiteSpace
        /\ \A i \in (b + 1)..Len(s) : s[i] \in WhiteSpace

\* a draft save() is specified for: title and category are not blank
ValidDraft(draft) ==
    /\ \E i \in 1..Len(draft.title) : draft.title[i] \notin WhiteSpace
    /\ \E i \in 1..Len(draft.category) : draft.category[i] \notin WhiteSpace

\* a step in which handleSave issues its request
IssuesSave == saveReq = Null /\ saveReq' # Null

\* a step in which the request of handleSave is answered
SaveSettles == saveReq # Null /\ saveReq' = Null

\* ... by the table applying it
SaveSucceeds == handleSaveSettle("ok")

\* ... with an error
SaveFails == handleSaveSettle("error")

\* the id of the row a save request writes
TargetOf(req) == IF req.op = "insert" THEN FreshId(notes) ELSE req.rowId

\* C6: the request save() issues for a valid draft carries the trimmed title
\* and category and the content, tags and attachments of the draft; once the
\* save succeeded, load(id) returns a note with exactly these fields.
C6_SaveThenLoad ==
    [][/\ (IssuesSave /\ ValidDraft(note)) =>
            /\ IsTrimOf(saveReq'.data.title, note.title)
            /\ IsTrimOf(saveReq'.data.category, note.category)
            /\ saveReq'.data.content = note.content
            /\ saveReq'.data.tags = note.tags
            /\ saveReq'.data.attachments = note.attachments
            /\ saveReq'.op = IF note.id = NewId THEN "insert" ELSE "update"
            /\ saveReq'.op = "update" => saveReq'.rowId = note.id
       /\ SaveSucceeds =>
            LET loaded == StoreSelect(notes', TargetOf(saveReq)) IN
            /\ loaded # Null
            /\ loaded.title = saveReq.data.title
            /\ loaded.category = saveReq.data.category
            /\ loaded.content = saveReq.data.content
            /\ loaded.tags = saveReq.data.tags
            /\ loaded.attachments = saveReq.data.attachments
            /\ saveReq.op = "insert" => StoreSelect(notes, TargetOf(saveReq)) = Null]_vars

\* C6, witness: a new note with a title and a category typed with white space
\* around them and an attachment uploaded before the first save was saved.
C6_Witness ==
    /\ id = NewId /\ page = "home"
    /\ StoreSelect(notes, IdOrder[2]) # Null
    /\ notes[IdOrder[2]].title = <<"M", " ", "R">>
    /\ notes[IdOrder[2]].category = <<"B">>
    /\ Len(notes[IdOrder[2]].attachments) = 1
    /\ Resolves(notes[IdOrder[2]].attachments[1])

\* C7: a save that fails leaves the draft and the table as they are, keeps the
\* session open showing the save error, and leaves no request in flight; a
\* request is only issued by the Save button, which leaves the draft alone.
C7_SaveFailure ==
    [][/\ SaveFails =>
            /\ note' = note
            /\ notes' = notes
            /\ page' = page
            /\ Mounted => (error' = SaveFailedMsg /\ ~saving')
       /\ SaveSettles => saveReq' = Null
       /\ IssuesSave =>
            /\ Interactive /\ ~saving /\ saving'
            /\ note' = note
            /\ notes' = notes]_vars

\* C7, witness: the save of an edited draft failed.
C7_Witness ==
    /\ Mounted /\ error = SaveFailedMsg /\ ~saving /\ saveReq = Null
    /\ note # Null /\ note.title \in TitleInputs

\* an upload batch is in flight
BatchInFlight == \E b \in BatchSlots : batches[b].pc = "uploading"

\* C8: no save request is issued while an upload batch is in flight.
C8_NoSaveWhileUploading == [][IssuesSave => ~BatchInFlight]_vars

\* a step in which the batch b settles (Promise.all resolved and onDrop ran on)
BatchSettles(b) == batches[b].pc = "uploading" /\ batches'[b].pc = "idle"

\* the URLs of the jobs of a batch whose object is in the bucket, in job order
StoredUrls(batch) ==
    SelectSeq([i \in 1..Len(batch.fileNames) |-> getPublicUrl(batch.fileNames[i])],
              Resolves)

\* the jobs of a batch whose upload failed
FailedJobs(batch) == {i \in 1..Len(batch.files) : batch.results[i] = "failed"}

\* a step in which the upload of job i of batch b fails
JobFails(b, i) ==
    /\ batches[b].pc = "uploading" /\ i \in 1..Len(batches[b].files)
    /\ batches[b].results[i] = "pending"
    /\ batches'[b].pc = "uploading" /\ batches'[b].results[i] = "failed"

\* C9: a batch settles only after each of its N jobs settled; the URLs of the
\* N-M jobs that stored their object, and only these, are appended to the
\* draft in job order; the M failed jobs are the M null entries of the result,
\* each reported with the name of its file when it fails; and a job that is
\* pending can still complete whatever became of its siblings.
C9_BatchSettles ==
    /\ [][\A b \in BatchSlots : \A i \in 1..MaxBatch :
            (JobFails(b, i) /\ Live(batches[b])) =>
                fuError' = UploadFailedMsg(batches[b].files[i])]_vars
    /\ [][\A b \in BatchSlots : BatchSettles(b) =>
            /\ \A i \in 1..Len(batches[b].files) : batches[b].results[i] # "pending"
            /\ Len(StoredUrls(batches[b])) + Cardinality(FailedJobs(batches[b]))
                    = Len(batches[b].files)
            /\ Cardinality({i \in 1..Len(batches[b].files) : urlsOf(batches[b])[i] = Null})
                    = Cardinality(FailedJobs(batches[b]))
            /\ (Mounted /\ note # Null) =>
                    note'.attachments = note.attachments \o StoredUrls(batches[b])]_vars
    /\ [](\A b \in BatchSlots : batches[b].pc = "uploading" =>
            \A i \in 1..Len(batches[b].files) :
                batches[b].results[i] = "pending" => ENABLED uploadJobSettle(b, i, "ok"))

\* C9, witness: a batch of two files settled, one upload failed, and the URL
\* of the other one is in the draft.
C9_Witness ==
    /\ Mounted /\ note # Null /\ ~BatchInFlight
    /\ nextName = Len(InitialNames) + 3
    /\ \E f, g \in FilePool :
        /\ <<Len(InitialNames) + 1, f.ext>> \notin storage
        /\ <<Len(InitialNames) + 2, g.ext>> \in storage
        /\ getPublicUrl(<<Len(InitialNames) + 2, g.ext>>) \in Range(note.attachments)
        /\ getPublicUrl(<<Len(InitialNames) + 1, f.ext>>) \notin Range(note.attachments)

\* the validation the attachment manager is specified to do: at most 25 MiB,
\* and a PDF, PPT, PPTX, DOC, DOCX or video file
Acceptable(file) ==
    /\ file.size <= 26214400
    /\ \/ file.ext \in {"pdf", "ppt", "pptx", "doc", "docx"}
       \/ file.type[1] = "video"

\* C10: an upload is issued for exactly the acceptable files of a drop, in
\* their order: none for a file that is too big or of another type, one for
\* every other file.
C10_Validation ==
    /\ [][\A b \in BatchSlots : \A drop \in Drops : onDrop(b, drop) =>
            IF SelectSeq(drop, Acceptable) = <<>>
            THEN batches' = batches
            ELSE /\ batches'[b].pc = "uploading"
                 /\ batches'[b].files = SelectSeq(drop, Acceptable)
                 /\ Len(batches'[b].fileNames) = Len(batches'[b].files)]_vars
    /\ [](\A b \in BatchSlots : batches[b].pc = "uploading" =>
            \A i \in 1..Len(batches[b].files) : Acceptable(batches[b].files[i]))

\* C10, witness: a drop with a refused file whose other file is being uploaded.
C10_Witness ==
    \E b \in BatchSlots :
        /\ batches[b].pc = "uploading"
        /\ batches[b].refused = 1
        /\ Len(batches[b].files) = 1

\* a step in which a handleDelete invocation starts: its first request (the
\* removal of the attachments, or the delete of the row) is issued
DeleteStarts(k) == deletes[k].pc = "idle" /\ deletes'[k].pc # "idle"

\* C11: a handleDelete whose confirm is answered No changes nothing (draft,
\* table, bucket, requests in flight, error); a delete request is only issued
\* by an invocation whose confirm was answered Yes; and with a note that was
\* never saved there is no Delete button: no invocation at all.
C11_ConfirmGate ==
    /\ [][/\ handleDeleteDeclined =>
                /\ declined'
                /\ note' = note /\ notes' = notes /\ storage' = storage
                /\ deletes' = deletes /\ error' = error /\ page' = page
           /\ \A k \in DeleteSlots : DeleteStarts(k) =>
                /\ ~declined'
                /\ Interactive /\ id # NewId
                /\ \E j \in DeleteSlots : handleDelete(j)]_vars
    /\ [](id = NewId =>
            /\ ~declined
            /\ \A k \in DeleteSlots : deletes[k].pc = "idle"
            /\ ~ENABLED handleDeleteDeclined
            /\ \A k \in DeleteSlots : ~ENABLED handleDelete(k))

\* C11, witness: the user answered No to the confirm of a loaded note with
\* attachments, and the note, its row and its objects are all there.
C11_Witness ==
    /\ declined /\ Interactive /\ id # NewId
    /\ note # Null /\ Len(note.attachments) = Len(InitialNames)
    /\ notes[id] = InitialRow
    /\ storage = Range(InitialNames)
    /\ \A k \in DeleteSlots : deletes[k].pc = "idle"

\* C12: when a batch settles with URLs to report, they are appended in their
\* order to the end of the draft's attachments, a save in flight or not; the
\* entries the list had, the other fields of the draft, the table, the bucket
\* and the requests in flight stay as they are.  A batch with nothing to
\* report leaves the draft alone.
C12_AddAttachments ==
    [][\A b \in BatchSlots : (BatchSettles(b) /\ Mounted /\ note # Null) =>
        /\ note' = [note EXCEPT !.attachments =
                        note.attachments \o validUrlsOf(batches[b])]
        /\ SubSeq(note'.attachments, 1, Len(note.attachments)) = note.attachments
        /\ notes' = notes /\ storage' = storage
        /\ saveReq' = saveReq /\ saving' = saving /\ deletes' = deletes]_vars

\* C12, witness: a URL was appended to an edited draft that listed
\* attachments before, while the save issued before it is in flight.
C12_Witness ==
    /\ Mounted /\ saving /\ saveReq # Null /\ ~BatchInFlight
    /\ note # Null /\ note.title \in TitleInputs
    /\ saveReq.data.attachments # <<>>
    /\ Len(note.attachments) = Len(saveReq.data.attachments) + 1
    /\ SubSeq(note.attachments, 1, Len(saveReq.data.attachments))
            = saveReq.data.attachments

\* C13: neither step of a save (the request, its answer: success or error)
\* changes the set of objects in the bucket; the bucket only changes when an
\* upload job stores its object, when the removal of an attachment is carried
\* out, or when the removal of the attachments of a delete is carried out.
C13_SaveLeavesStorage ==
    [][/\ (handleSave \/ SaveSucceeds \/ SaveFails) => storage' = storage
       /\ (IssuesSave \/ SaveSettles) => storage' = storage
       /\ storage' # storage =>
            \/ \E b \in BatchSlots, i \in 1..MaxBatch : uploadJobSettle(b, i, "ok")
            \/ \E k \in RemoveSlots : removeFileSettle(k, "ok")
            \/ \E k \in DeleteSlots : handleDeleteStorageSettle(k, "ok")]_vars

\* C13, witness: a new note was saved without attachments while the bucket
\* held an object no row lists, and the object is still there.
C13_Witness ==
    /\ page = "home" /\ id = NewId /\ saveReq = Null
    /\ notes[IdOrder[2]] # Absent /\ notes[IdOrder[2]].attachments = <<>>
    /\ \E n \in storage : n \notin Range(InitialNames)

\* the bucket answers the removal k (it resolves, with or without an error)
RemovalAnswered(k) == removeFileSettle(k, "ok") \/ removeFileSettle(k, "error")

\* C14: a removal whose object is not in the bucket when the bucket answers
\* is not a failure: the URL is dropped from the draft, the rest of the draft
\* stays, no error is shown, the session goes on and the bucket is unchanged.
C14_RemoveAbsent ==
    [][\A k \in RemoveSlots :
        (RemovalAnswered(k) /\ ~Resolves(removals[k].url)) =>
            /\ storage' = storage
            /\ fuError' = fuError /\ error' = error /\ page' = page
            /\ (Mounted /\ note # Null) =>
                /\ removals[k].url \notin Range(note'.attachments)
                /\ note' = [note EXCEPT !.attachments =
                        SelectSeq(note.attachments,
                                  LAMBDA u : u # removals[k].url)]]_vars

\* C14, witness: a delete removed the objects of both attachments and failed
\* at the row; Delete was clicked again with both URLs in the draft, and one
\* of them has been dropped since by a removal that found no object.
C14_Witness ==
    /\ Interactive /\ note # Null /\ storage = {}
    /\ \A k \in RemoveSlots : removals[k].pc = "idle"
    /\ fuError = Null
    /\ Len(note.attachments) = 1
    /\ \E k \in DeleteSlots :
        /\ deletes[k].pc = "storage"
        /\ Len(deletes[k].fileNames) = 2
        /\ \A j \in DeleteSlots \ {k} : deletes[j].pc = "idle"

\* C15: the session of a new note starts with the editor (not loading), the
\* empty draft and no select in flight, and never loads; the session of an
\* existing note starts loading with no draft, and leaves loading in the end:
\* when the select is answered, with the row as the draft if it found the
\* row, and with no draft and the load error if it failed.
C15_SessionStart ==
    /\ IF id = NewId
       THEN ~loading /\ note = EmptyDraft /\ error = Null
       ELSE loading /\ note = Null
    /\ [](id = NewId =>
            /\ ~loading
            /\ \A o \in Outcomes : ~ENABLED fetchNoteSettle(o))
    /\ [][/\ (loading /\ ~loading') => \E o \in Outcomes : fetchNoteSettle(o)
          /\ fetchNoteSettle("ok") =>
               /\ ~loading' /\ error' = error
               /\ note'.id = id
               /\ DOMAIN note' = DOMAIN notes[id] \cup {"id"}
               /\ \A f \in DOMAIN notes[id] : note'[f] = notes[id][f]
          /\ fetchNoteSettle("error") =>
               /\ ~loading' /\ error' = LoadFailedMsg
               /\ note' = Null]_vars
    /\ (loading ~> ~loading)

\* C15, witness: the session of an existing note is past loading, with the
\* row as its draft.
C15_Witness ==
    /\ Interactive /\ id = IdOrder[1] /\ error = Null
    /\ note # Null /\ note.id = id
    /\ note.title = InitialRow.title /\ note.attachments = InitialRow.attachments

\* a handleDelete invocation is in flight: it awaits the bucket or the table
DeleteInFlight == \E k \in DeleteSlots : deletes[k].pc \in {"storage", "record"}

\* a save request is in flight
SaveInFlight == saveReq # Null

\* C16: the session never has a save request and a delete in flight at the
\* same time.
C16_NotSavingAndDeleting == ~(SaveInFlight /\ DeleteInFlight)

\* a batch of the FileUpload that is rendered is in flight
LiveBatchInFlight ==
    \E b \in BatchSlots : batches[b].pc = "uploading" /\ Live(batches[b])

\* C17: the upload progress map has entries only while a batch of the
\* rendered FileUpload is in flight: it is empty before the first batch and
\* once a batch has settled.
C17_ProgressOnlyInFlight == uploadProgress # <<>> => LiveBatchInFlight

\* C17, witness: a batch stored an object (its file was entered in the
\* progress map) and settled; the URL is in the draft and the map is empty.
C17_Witness ==
    /\ Mounted /\ ~BatchInFlight /\ uploadProgress = <<>>
    /\ note # Null
    /\ \E i \in 1..Len(note.attachments) :
        /\ FileNameOf(note.attachments[i]) \notin Range(InitialNames)
        /\ Resolves(note.attachments[i])

\* a step in which the row n is deleted from the table
RowDeleted(n) == notes[n] # Absent /\ notes'[n] = Absent

\* C18: when a delete removes a row, no object which the row lists as an
\* attachment is left in the bucket.
C18_DeleteLeavesNoObject ==
    [][\A n \in NoteIds : RowDeleted(n) =>
        \A i \in 1..Len(notes[n].attachments) :
            FileNameOf(notes[n].attachments[i]) \notin storage']_vars

\* C19: a save is only started while saving is clear and no save request is
\* in flight, so there is at most one; while NotePage is mounted, saving is
\* set exactly while the request is in flight: set when it is issued, clear
\* once it is answered, with or without an error.
C19_OneSave ==
    /\ [](Mounted => (saving <=> SaveInFlight))
    /\ [][/\ (handleSave /\ note # Null) =>
               /\ ~saving /\ ~SaveInFlight
               /\ saving' /\ SaveInFlight'
          /\ (SaveSucceeds \/ SaveFails) =>
               /\ SaveInFlight /\ (Mounted => saving)
               /\ ~saving' /\ ~SaveInFlight'
          /\ saveReq' # saveReq => (IssuesSave \/ SaveSettles)]_vars

\* C19, witness: the save of a new note is in flight, saving is set, and the
\* draft has been edited since the request was issued.
C19_Witness ==
    /\ Mounted /\ saving /\ SaveInFlight
    /\ error = Null
    /\ notes = [n \in NoteIds |-> IF n = IdOrder[1] THEN InitialRow ELSE Absent]
    /\ note # Null /\ note.category \in CategoryInputs
    /\ saveReq.data.category = <<>>

\* the batches in flight
BatchesInFlight == {b \in BatchSlots : batches[b].pc = "uploading"}

\* a step in which onDrop starts the batch b
BatchStarts(b) == batches[b].pc = "idle" /\ batches'[b].pc = "uploading"

\* C20: at most one batch is in flight at any time, and none starts while
\* uploading is set; uploading is cleared in the end: by a drop none of whose
\* files passes the validation, and when a batch settles; a drop without a
\* valid file and a batch without a stored file leave the draft as it is.
C20_OneBatch ==
    /\ [](Cardinality(BatchesInFlight) <= 1)
    /\ [][/\ \A b \in BatchSlots : BatchStarts(b) => ~uploading
          /\ \A b \in BatchSlots : BatchSettles(b) =>
               /\ Live(batches[b]) => ~uploading'
               /\ validUrlsOf(batches[b]) = <<>> => note' = note
          /\ \A b \in BatchSlots, drop \in Drops :
               (onDrop(b, drop) /\ validFilesOf(drop) = <<>>) =>
                    ~uploading' /\ note' = note /\ batches' = batches]_vars
    /\ (uploading ~> ~uploading)

\* a step in which the row n is created in the table
RowCreated(n) == notes[n] = Absent /\ notes'[n] # Absent

\* the rows created since the session began
CreatedRows == Rows \ {IdOrder[1]}

\* C21: the session of a new note creates at most one row, however often
\* Save is clicked: a row is only created by the insert of such a session
\* when it succeeds, no row was created before, and the page is left with
\* it, after which no save can be started; a save that failed created none.
C21_OneRecord ==
    /\ [](Cardinality(CreatedRows) <= 1)
    /\ [](page = "home" => ~ENABLED handleSave)
    /\ [][/\ \A n \in NoteIds : RowCreated(n) =>
               /\ id = NewId /\ SaveSucceeds
               /\ CreatedRows = {} /\ CreatedRows' = {n}
               /\ page' = "home"
          /\ SaveFails => CreatedRows' = CreatedRows]_vars

\* C21, witness: the session of a new note created its row and is over, and
\* the table has room for another row.
C21_Witness ==
    /\ id = NewId /\ page = "home" /\ ~SaveInFlight
    /\ Cardinality(CreatedRows) = 1
    /\ \E n \in NoteIds : notes[n] = Absent

\* handleSave returns at its first line: there is no draft or no session
SaveIsNoOp == note = Null \/ session = Null

\* C22: where Save can be clicked with no draft or no session, the click
\* changes nothing: no request is issued, saving stays clear, and the error,
\* the draft and the table stay as they are; a save request is only issued
\* with a draft and a session; NotePage is never rendered without a session.
C22_SaveNoOp ==
    /\ [](Mounted => session # Null)
    /\ []((Interactive /\ SaveIsNoOp) =>
            /\ ~saving /\ ~SaveInFlight
            /\ ENABLED handleSave
            /\ ~ENABLED (handleSave /\ vars' # vars))
    /\ [][/\ IssuesSave => ~SaveIsNoOp
          /\ (handleSave /\ SaveIsNoOp) =>
               /\ saveReq' = saveReq /\ saving' = saving /\ error' = error
               /\ note' = note /\ notes' = notes]_vars

\* C22, witness: the load failed, there is no draft, the load error is
\* shown and the Save button can be clicked.
C22_Witness ==
    /\ Interactive /\ note = Null /\ session # Null
    /\ error = LoadFailedMsg
    /\ ~saving /\ ~SaveInFlight
    /\ ENABLED handleSave


====
